---- MODULE Spec2Model ----
(***************************************************************************)
(* Model of the nba-bets backend: the bets router (app/routers/bets.py)    *)
(* and the Bet models (app/models/bet.py).                                 *)
(*                                                                         *)
(* Optional values (Python `X | None`) are sequences of length at most 1:  *)
(* None is <<>> and a present value x is <<x>>.  Strings are TLA+ strings, *)
(* f-string interpolation is \o.  Enumeration members are named by their   *)
(* member name (PLAYER_PROP) and carry a value ("player_prop").            *)
(***************************************************************************)
EXTENDS Integers, Sequences, FiniteSets, TLC

VARIABLES
    store,      \* the bets table: id -> Bet row, for the ids currently stored
    nextId,     \* the next value of the primary-key sequence
    now,        \* the wall clock read by datetime.now(UTC)
    last,       \* the last request handled and its response
    gd_args,    \* arguments of a direct call of generate_description
    gd_result,  \* its return value (None until the call has returned)
    request,    \* the last HTTP request as received, before validation
    sess        \* the database sessions of the requests in flight

vars == <<store, nextId, now, last, gd_args, gd_result, request, sess>>

----------------------------------------------------------------------------
(* Bounds *)

MaxBets == 1        \* ids the primary-key sequence may hand out
MaxClock == 1       \* last clock tick
MaxSessions == 2    \* requests that can be in flight together

----------------------------------------------------------------------------
(* Optional values and truthiness *)

None == <<>>

Some(x) == <<x>>

\* Python truthiness of a `str | None`: None and "" are falsy.
Truthy(v) == v # None /\ v[1] # ""

----------------------------------------------------------------------------
(* Enumerations, app/models/bet.py *)

BetType == {"PLAYER_PROP", "TEAM_PROP", "SPREAD", "MONEYLINE"}

BetTypeValue ==
    [PLAYER_PROP |-> "player_prop", TEAM_PROP |-> "team_prop",
     SPREAD |-> "spread", MONEYLINE |-> "moneyline"]

BetResult == {"WIN", "LOSS", "PUSH", "PENDING", "CANCELLED"}

BetResultValue ==
    [WIN |-> "win", LOSS |-> "loss", PUSH |-> "push", PENDING |-> "pending",
     CANCELLED |-> "cancelled"]

\* The members of PropType the model draws from (the enumeration has 15).
PropType == {"POINTS", "THREE_POINTERS"}

PropTypeValue == [POINTS |-> "points", THREE_POINTERS |-> "threes"]

\* A prop_type argument is a PropType member or a plain string.
EnumProp(m) == [enum |-> TRUE, s |-> m]

StrProp(s) == [enum |-> FALSE, s |-> s]

----------------------------------------------------------------------------
(* generate_description, app/routers/bets.py *)

\* prop_type.value if hasattr(prop_type, "value") else str(prop_type)
prop_type_str(prop_type) ==
    IF prop_type # None
    THEN IF prop_type[1].enum
         THEN Some(PropTypeValue[prop_type[1].s])
         ELSE Some(prop_type[1].s)
    ELSE None

\* Mutant: the two fallbacks in the other order (team before player_name).
generate_description_team_first(bet_type, team, player_name, prop_type) ==
    IF bet_type = Some("PLAYER_PROP") /\ Truthy(player_name)
          /\ Truthy(prop_type_str(prop_type))
    THEN player_name[1] \o "-" \o prop_type_str(prop_type)[1]
    ELSE IF bet_type = Some("TEAM_PROP") /\ Truthy(team)
              /\ Truthy(prop_type_str(prop_type))
    THEN team[1] \o "-" \o prop_type_str(prop_type)[1]
    ELSE IF bet_type \in {Some("SPREAD"), Some("MONEYLINE")} /\ Truthy(team)
    THEN team[1] \o "-" \o BetTypeValue[bet_type[1]]
    ELSE IF Truthy(team)
    THEN team[1]
    ELSE IF Truthy(player_name)
    THEN player_name[1]
    ELSE "Unknown"

\* Mutant: the last fallback is `return team or ""`, without "Unknown".
generate_description_no_unknown(bet_type, team, player_name, prop_type) ==
    IF bet_type = Some("PLAYER_PROP") /\ Truthy(player_name)
          /\ Truthy(prop_type_str(prop_type))
    THEN player_name[1] \o "-" \o prop_type_str(prop_type)[1]
    ELSE IF bet_type = Some("TEAM_PROP") /\ Truthy(team)
              /\ Truthy(prop_type_str(prop_type))
    THEN team[1] \o "-" \o prop_type_str(prop_type)[1]
    ELSE IF bet_type \in {Some("SPREAD"), Some("MONEYLINE")} /\ Truthy(team)
    THEN team[1] \o "-" \o BetTypeValue[bet_type[1]]
    ELSE IF Truthy(player_name)
    THEN player_name[1]
    ELSE IF Truthy(team)
    THEN team[1]
    ELSE ""

\* Mutant: the team label rule fires for every bet type that has a team.
generate_description_label_any_type(bet_type, team, player_name, prop_type) ==
    IF bet_type = Some("PLAYER_PROP") /\ Truthy(player_name)
          /\ Truthy(prop_type_str(prop_type))
    THEN player_name[1] \o "-" \o prop_type_str(prop_type)[1]
    ELSE IF bet_type = Some("TEAM_PROP") /\ Truthy(team)
              /\ Truthy(prop_type_str(prop_type))
    THEN team[1] \o "-" \o prop_type_str(prop_type)[1]
    ELSE IF bet_type # None /\ Truthy(team)
    THEN team[1] \o "-" \o BetTypeValue[bet_type[1]]
    ELSE IF Truthy(player_name)
    THEN player_name[1]
    ELSE IF Truthy(team)
    THEN team[1]
    ELSE "Unknown"

generate_description(bet_type, team, player_name, prop_type) ==
    IF bet_type = Some("PLAYER_PROP") /\ Truthy(player_name)
          /\ Truthy(prop_type_str(prop_type))
    THEN player_name[1] \o "-" \o prop_type_str(prop_type)[1]
    ELSE IF bet_type = Some("TEAM_PROP") /\ Truthy(team)
              /\ Truthy(prop_type_str(prop_type))
    THEN team[1] \o "-" \o prop_type_str(prop_type)[1]
    ELSE IF bet_type \in {Some("SPREAD"), Some("MONEYLINE")} /\ Truthy(team)
    THEN team[1] \o "-" \o BetTypeValue[bet_type[1]]
    ELSE IF Truthy(player_name)
    THEN player_name[1]
    ELSE IF Truthy(team)
    THEN team[1]
    ELSE "Unknown"

----------------------------------------------------------------------------
(* The Bet table model, app/models/bet.py *)

\* Bet._generate_description: the model's own fallback label.
\* f"{self.team} {self.prop_line}" formats an absent prop_line as "None".
Bet_generate_description(self) ==
    IF self.bet_type = Some("PLAYER_PROP") /\ Truthy(self.player_name)
    THEN self.player_name[1]
    ELSE IF self.bet_type = Some("TEAM_PROP") /\ Truthy(self.team)
    THEN self.team[1]
    ELSE IF self.bet_type = Some("SPREAD") /\ Truthy(self.team)
    THEN self.team[1] \o " "
            \o (IF self.prop_line = None THEN "None" ELSE self.prop_line[1])
    ELSE IF self.bet_type = Some("MONEYLINE") /\ Truthy(self.team)
    THEN self.team[1]
    ELSE IF Truthy(self.team) THEN self.team[1] ELSE "Unknown"

\* Bet.__init__(**data): the columns take the data (id and updated_at
\* default to None, created_at to the clock), then an empty description is
\* filled in.
Bet_init(data) ==
    LET self == [id |-> None,
                 bet_type |-> data.bet_type,
                 bet_placed_date |-> data.bet_placed_date,
                 team |-> data.team,
                 player_name |-> data.player_name,
                 prop_type |-> data.prop_type,
                 description |-> data.description,
                 prop_line |-> data.prop_line,
                 over_under |-> data.over_under,
                 result |-> data.result,
                 created_at |-> Some(now),
                 updated_at |-> None]
    IN  IF ~Truthy(self.description)
        THEN [self EXCEPT !.description = Some(Bet_generate_description(self))]
        ELSE self

\* Columns declared without `| None` are NOT NULL: a flush of a row that
\* holds None in one of them raises IntegrityError.
NotNullColumns == {"bet_type", "bet_placed_date", "team", "result"}

NotNullOK(bet) == \A c \in NotNullColumns : bet[c] # None

----------------------------------------------------------------------------
(* Request payloads *)

ApiBetTypes == {Some(b) : b \in {"PLAYER_PROP", "SPREAD"}}

ApiTeams == {Some(""), Some("LAL")}

ApiPlayers == {None, Some("LeBron")}

ApiPropTypes == {None, Some(EnumProp("POINTS"))}

ApiDescriptions == {None, Some(""), Some("Custom")}

ApiPropLines == {None}

ApiOverUnders == {None}

ApiResults == {Some("PENDING"), Some("WIN")}

\* bet_placed_date, as a number of days.
ApiDates == {Some(1)}

\* BetCreate after validation: every field holds its value or its default.
BetCreate ==
    [bet_type : ApiBetTypes, bet_placed_date : ApiDates, team : ApiTeams,
     player_name : ApiPlayers, prop_type : ApiPropTypes,
     description : ApiDescriptions, prop_line : ApiPropLines,
     over_under : ApiOverUnders, result : ApiResults]

\* One field of BetUpdate: unset (not in the request body, value None), or
\* set to a value; every field accepts an explicit null, and the bodies of
\* the model send one for team, player_name, prop_type, description and
\* prop_line.
Unset == [set |-> FALSE, v |-> None]

UpdateField(vals) == {Unset} \cup [set : {TRUE}, v : vals]

Nullable(vals) == vals \cup {None}

\* The sets of fields a PATCH body of the model names: at most one field
\* besides description.
PatchShapes ==
    {F \in SUBSET {"bet_type", "team", "player_name", "prop_type",
                   "description", "prop_line", "result"} :
        Cardinality(F \ {"description"}) <= 1}

BetUpdateAll ==
    [bet_type : UpdateField(ApiBetTypes),
     bet_placed_date : UpdateField(ApiDates),
     team : UpdateField(Nullable(ApiTeams)),
     player_name : UpdateField(Nullable(ApiPlayers)),
     prop_type : UpdateField(Nullable(ApiPropTypes)),
     description : UpdateField(Nullable(ApiDescriptions)),
     prop_line : UpdateField(Nullable(ApiPropLines)),
     over_under : {Unset},
     result : UpdateField(ApiResults)]

\* Mutant: model_dump() without exclude_unset, every field of the model.
update_data_with_defaults(bet_update) == DOMAIN bet_update

\* bet_update.model_dump(exclude_unset=True): the fields the body named.
update_data(bet_update) == {f \in DOMAIN bet_update : bet_update[f].set}

BetUpdate == {p : p \in {q \in BetUpdateAll : update_data(q) \in PatchShapes}}

description_affecting_fields == {"bet_type", "team", "player_name", "prop_type"}

description_fields_changed(bet_update) ==
    update_data(bet_update) \cap description_affecting_fields # {}

----------------------------------------------------------------------------
(* Requests as received *)

\* A JSON value of a request body or a query parameter: a text, a number,
\* null, or absent (the key is not there).
Absent == [t |-> "absent", s |-> "", n |-> 0]

JNull == [t |-> "null", s |-> "", n |-> 0]

JStr(s) == [t |-> "str", s |-> s, n |-> 0]

JNum(n) == [t |-> "num", s |-> "", n |-> n]

\* The keys a body of the model carries: the declared fields, and two keys
\* that neither BetCreate nor BetUpdate declares.
BodyKeys ==
    {"bet_type", "bet_placed_date", "team", "player_name", "prop_type",
     "description", "prop_line", "over_under", "result", "id", "updated_at"}

QueryKeys ==
    {"skip", "limit", "bet_type", "team", "player_name", "prop_type", "result"}

NoBody == [k \in BodyKeys |-> Absent]

NoQuery == [k \in QueryKeys |-> Absent]

\* The body that has the given keys and no other.
Body(given) == [k \in BodyKeys |-> IF k \in DOMAIN given THEN given[k] ELSE Absent]

Query(given) == [k \in QueryKeys |-> IF k \in DOMAIN given THEN given[k] ELSE Absent]

Request(method, id, body, query) ==
    [method |-> method, id |-> id, body |-> body, query |-> query]

\* No request received yet.
Idle == Request("NONE", 0, NoBody, NoQuery)

----------------------------------------------------------------------------
(* Handlers, app/routers/bets.py *)

NoRequest == [op |-> "none", id |-> 0, status |-> 0, payload |-> None, body |-> None]

Response(op, id, status, payload, body) ==
    [op |-> op, id |-> id, status |-> status, payload |-> payload, body |-> body]

\* Mutant: create_bet generates the description whatever the body gave.
create_bet_generates_always(bet) == TRUE

\* create_bet, `if not bet.description`: the body gave no usable description.
create_bet_generates(bet) == ~Truthy(bet.description)

\* Mutant: create_bet leaves the description to the model's own fallback.
create_bet_row_model_fallback(bet) == Bet_init(bet)

\* create_bet, bet_data: the dumped body with the description filled in
\* when the body gave none; what the Bet constructor receives.
create_bet_data(bet) ==
    IF create_bet_generates(bet)
    THEN [bet EXCEPT !.description =
             Some(generate_description(bet.bet_type, bet.team,
                                       bet.player_name, bet.prop_type))]
    ELSE bet

\* create_bet up to Bet(**bet_data).
create_bet_row(bet) == Bet_init(create_bet_data(bet))

\* db.add, commit (the key comes from the sequence), refresh.
create_bet(bet) ==
    /\ LET db_bet == [create_bet_row(bet) EXCEPT !.id = Some(nextId)]
       IN  /\ store' = (nextId :> db_bet) @@ store
           /\ last' = Response("create", nextId, 200, bet, Some(db_bet))
    /\ nextId' = nextId + 1
    /\ UNCHANGED <<now, gd_args, gd_result>>

\* update_bet, "Apply updates": setattr for every field of update_data.
apply_updates(bet, bet_update) ==
    [f \in DOMAIN bet |->
        IF f \in update_data(bet_update) THEN bet_update[f].v ELSE bet[f]]

\* Mutant: an explicit description no longer suppresses the recalculation.
recalculates_on_change(bet_update) == description_fields_changed(bet_update)

\* Mutant: every body without a description recalculates.
recalculates_unless_described(bet_update) ==
    "description" \notin update_data(bet_update)

\* update_bet, the condition of the recalculation.
recalculates(bet_update) ==
    /\ description_fields_changed(bet_update)
    /\ "description" \notin update_data(bet_update)

\* Mutant: the recalculation reads the row as it was before the updates.
recalculated_from_stored(bet, applied) ==
    generate_description(bet.bet_type, bet.team, bet.player_name, bet.prop_type)

\* update_bet, the recalculation: from the row the updates were applied to.
recalculated(bet, applied) ==
    generate_description(applied.bet_type, applied.team,
                         applied.player_name, applied.prop_type)

\* Mutant: updated_at moves only when the request changed the row.
stamp_update_if_changed(bet, described) ==
    IF [described EXCEPT !.updated_at = bet.updated_at] = bet
    THEN described
    ELSE [described EXCEPT !.updated_at = Some(now)]

\* update_bet and replace_bet, "Update the updated_at timestamp".
stamp_update(bet, described) == [described EXCEPT !.updated_at = Some(now)]

\* update_bet after the lookup, up to the commit.
update_bet_row(bet, bet_update) ==
    LET applied == apply_updates(bet, bet_update)
        described ==
            IF recalculates(bet_update)
            THEN [applied EXCEPT !.description = Some(recalculated(bet, applied))]
            ELSE applied
    IN  stamp_update(bet, described)

update_bet(bet_id, bet_update) ==
    /\ IF bet_id \notin DOMAIN store
       THEN /\ last' = Response("patch", bet_id, 404, bet_update, None)
            /\ UNCHANGED store
       ELSE LET bet == update_bet_row(store[bet_id], bet_update)
            IN  IF NotNullOK(bet)
                THEN /\ store' = [store EXCEPT ![bet_id] = bet]
                     /\ last' = Response("patch", bet_id, 200, bet_update, Some(bet))
                ELSE /\ last' = Response("patch", bet_id, 500, bet_update, None)
                     /\ UNCHANGED store
    /\ UNCHANGED <<nextId, now, gd_args, gd_result>>

\* replace_bet, `if not bet_data.description`.
replace_bet_generates(bet_data) == ~Truthy(bet_data.description)

\* Mutant: a player_name the body omits is taken from the old row.
replaced_description_merged(bet, bet_data) ==
    generate_description(bet_data.bet_type, bet_data.team,
                         IF bet_data.player_name = None
                         THEN bet.player_name ELSE bet_data.player_name,
                         bet_data.prop_type)

\* replace_bet, the generated description: from the body's own fields.
replaced_description(bet, bet_data) ==
    generate_description(bet_data.bet_type, bet_data.team,
                         bet_data.player_name, bet_data.prop_type)

\* Mutant: the body is dumped without its None values, so a field the body
\* leaves out keeps the old row's value.
replace_bet_row_exclude_none(bet, bet_data) ==
    LET new_data ==
            IF replace_bet_generates(bet_data)
            THEN [bet_data EXCEPT !.description =
                     Some(replaced_description(bet, bet_data))]
            ELSE bet_data
        replaced == [f \in DOMAIN bet |->
                       IF f \in DOMAIN new_data /\ new_data[f] # None
                       THEN new_data[f] ELSE bet[f]]
    IN  stamp_update(bet, replaced)

\* replace_bet after the lookup, up to the commit: every field of new_data
\* is set on the row (the row has each of them), then updated_at.
replace_bet_row(bet, bet_data) ==
    LET new_data ==
            IF replace_bet_generates(bet_data)
            THEN [bet_data EXCEPT !.description =
                     Some(replaced_description(bet, bet_data))]
            ELSE bet_data
        replaced == [f \in DOMAIN bet |->
                       IF f \in DOMAIN new_data THEN new_data[f] ELSE bet[f]]
    IN  stamp_update(bet, replaced)

replace_bet(bet_id, bet_data) ==
    /\ IF bet_id \notin DOMAIN store
       THEN /\ last' = Response("put", bet_id, 404, bet_data, None)
            /\ UNCHANGED store
       ELSE LET bet == replace_bet_row(store[bet_id], bet_data)
            IN  IF NotNullOK(bet)
                THEN /\ store' = [store EXCEPT ![bet_id] = bet]
                     /\ last' = Response("put", bet_id, 200, bet_data, Some(bet))
                ELSE /\ last' = Response("put", bet_id, 500, bet_data, None)
                     /\ UNCHANGED store
    /\ UNCHANGED <<nextId, now, gd_args, gd_result>>

\* Mutant: deleting a bet that is not there succeeds as well.
delete_bet_idempotent(bet_id) ==
    /\ store' = [i \in DOMAIN store \ {bet_id} |-> store[i]]
    /\ last' = Response("delete", bet_id, 200, None, None)
    /\ UNCHANGED <<nextId, now, gd_args, gd_result>>

delete_bet(bet_id) ==
    /\ IF bet_id \notin DOMAIN store
       THEN /\ last' = Response("delete", bet_id, 404, None, None)
            /\ UNCHANGED store
       ELSE /\ store' = [i \in DOMAIN store \ {bet_id} |-> store[i]]
            /\ last' = Response("delete", bet_id, 200, None, None)
    /\ UNCHANGED <<nextId, now, gd_args, gd_result>>

\* Time passes between requests.
Tick ==
    /\ now < MaxClock
    /\ now' = now + 1
    /\ UNCHANGED <<store, nextId, last, gd_args, gd_result>>

----------------------------------------------------------------------------
(* The service: requests handled one after the other *)

BetIds == 1..MaxBets

Sessions == 1..MaxSessions

\* A session that has not begun its request.
IdleSession ==
    [pc |-> "idle", op |-> "none", id |-> 0, payload |-> None, bet |-> None,
     row |-> None, status |-> 0]

NoCall == [bet_type |-> None, team |-> None, player_name |-> None, prop_type |-> None]

Init ==
    /\ store = << >>
    /\ nextId = 1
    /\ now = 0
    /\ last = NoRequest
    /\ gd_args = NoCall
    /\ gd_result = None
    /\ request = Idle
    /\ sess = [s \in Sessions |-> IdleSession]

Create ==
    /\ UNCHANGED <<request, sess>>
    /\ nextId <= MaxBets
    /\ \E bet \in BetCreate : create_bet(bet)

Patch ==
    /\ UNCHANGED <<request, sess>>
    /\ \E bet_id \in BetIds : \E bet_update \in BetUpdate : update_bet(bet_id, bet_update)

Put ==
    /\ UNCHANGED <<request, sess>>
    /\ \E bet_id \in BetIds : \E bet_data \in BetCreate : replace_bet(bet_id, bet_data)

Delete ==
    /\ UNCHANGED <<request, sess>>
    /\ \E bet_id \in BetIds : delete_bet(bet_id)

Pass == UNCHANGED <<request, sess>> /\ Tick

Next == Create \/ Patch \/ Put \/ Delete \/ Pass

Spec == Init /\ [][Next]_vars

----------------------------------------------------------------------------
(* generate_description called directly, as the unit tests call it *)

DeriveBetTypes == {Some(b) : b \in BetType}

DeriveTexts == {None, Some(""), Some("LAL"), Some("LeBron")}

DerivePropTypes ==
    {None, Some(StrProp("")), Some(StrProp("points")),
     Some(EnumProp("POINTS")), Some(EnumProp("THREE_POINTERS"))}

DeriveArgs ==
    [bet_type : DeriveBetTypes, team : DeriveTexts \ {Some("LeBron")},
     player_name : DeriveTexts \ {Some("LAL")}, prop_type : DerivePropTypes]

InitDerive ==
    /\ store = << >>
    /\ nextId = 1
    /\ now = 0
    /\ last = NoRequest
    /\ gd_args \in DeriveArgs
    /\ gd_result = None
    /\ request = Idle
    /\ sess = [s \in Sessions |-> IdleSession]

Derive ==
    /\ gd_result = None
    /\ gd_result' = Some(generate_description(gd_args.bet_type, gd_args.team,
                                              gd_args.player_name, gd_args.prop_type))
    /\ UNCHANGED <<store, nextId, now, last, gd_args, request, sess>>

NextDerive == Derive

SpecDerive == InitDerive /\ [][NextDerive]_vars

----------------------------------------------------------------------------
(* Validation of the JSON bodies *)

\* The outcome of validating one field.
Valid(v) == [ok |-> TRUE, v |-> v]

Invalid == [ok |-> FALSE, v |-> None]

\* The members of an enumeration whose value is the text.
EnumMember(values, text) == {m \in DOMAIN values : values[m] = text}

as_enum(values, j) ==
    IF j.t = "str" /\ EnumMember(values, j.s) # {}
    THEN Valid(Some(CHOOSE m \in EnumMember(values, j.s) : TRUE))
    ELSE Invalid

as_bet_type(j) == as_enum(BetTypeValue, j)

as_prop_type(j) ==
    IF as_enum(PropTypeValue, j).ok
    THEN Valid(Some(EnumProp(as_enum(PropTypeValue, j).v[1])))
    ELSE Invalid

\* Mutant: a result outside the enumeration is read as the default.
as_result_lenient(j) ==
    IF j.t = "str"
    THEN IF EnumMember(BetResultValue, j.s) # {}
         THEN as_enum(BetResultValue, j)
         ELSE Valid(Some("PENDING"))
    ELSE Invalid

as_result(j) == as_enum(BetResultValue, j)

\* str: a JSON text; a number is not coerced.
as_str(j) == IF j.t = "str" THEN Valid(Some(j.s)) ELSE Invalid

\* datetime, as a number of days; a text of the model is not a date.
as_datetime(j) == IF j.t = "num" THEN Valid(Some(j.n)) ELSE Invalid

\* The decimal text of the numbers a body of the model carries.
NumText(n) == <<"0", "1", "2", "3", "4", "5", "6", "7", "8", "9">>[n + 1]

\* Decimal: a JSON number; a text of the model is not a decimal.
as_decimal(j) == IF j.t = "num" THEN Valid(Some(NumText(j.n))) ELSE Invalid

\* A field declared `X`: the key must be there and not null; `converted`
\* is the value read as an X.
required(j, converted) ==
    IF j.t \in {"absent", "null"} THEN Invalid ELSE converted

\* A field declared `X | None = None`.
optional(j, converted) ==
    IF j.t \in {"absent", "null"} THEN Valid(None) ELSE converted

\* A field declared `X = default`.
defaulted(j, converted, default) ==
    IF j.t = "absent" THEN Valid(Some(default))
    ELSE IF j.t = "null" THEN Invalid
    ELSE converted

\* A field of BetUpdate: unset when the key is absent, set otherwise.
updating(j, converted) ==
    IF j.t = "absent" THEN Valid(Unset)
    ELSE IF j.t = "null" THEN Valid([set |-> TRUE, v |-> None])
    ELSE IF converted.ok THEN Valid([set |-> TRUE, v |-> converted.v])
    ELSE Invalid

\* The result of validating a body: the model instance, or a 422.
Validated(fields) ==
    IF \A k \in DOMAIN fields : fields[k].ok
    THEN [ok |-> TRUE, value |-> [k \in DOMAIN fields |-> fields[k].v]]
    ELSE [ok |-> FALSE, value |-> None]

\* Mutant: keys the model does not declare are kept (extra = "allow").
BetCreate_validate_allow_extra(body) ==
    Validated(
        [bet_type |-> required(body.bet_type, as_bet_type(body.bet_type)),
         bet_placed_date |->
             required(body.bet_placed_date, as_datetime(body.bet_placed_date)),
         team |-> required(body.team, as_str(body.team)),
         player_name |-> optional(body.player_name, as_str(body.player_name)),
         prop_type |-> optional(body.prop_type, as_prop_type(body.prop_type)),
         description |-> optional(body.description, as_str(body.description)),
         prop_line |-> optional(body.prop_line, as_decimal(body.prop_line)),
         over_under |-> optional(body.over_under, as_str(body.over_under)),
         result |-> defaulted(body.result, as_result(body.result), "PENDING"),
         id |-> IF body.id.t = "num" THEN Valid(Some(body.id.n)) ELSE Valid(None)])

\* BetCreate validated from a JSON body; the keys the model does not
\* declare (id, updated_at) are ignored.
BetCreate_validate(body) ==
    Validated(
        [bet_type |-> required(body.bet_type, as_bet_type(body.bet_type)),
         bet_placed_date |->
             required(body.bet_placed_date, as_datetime(body.bet_placed_date)),
         team |-> required(body.team, as_str(body.team)),
         player_name |-> optional(body.player_name, as_str(body.player_name)),
         prop_type |-> optional(body.prop_type, as_prop_type(body.prop_type)),
         description |-> optional(body.description, as_str(body.description)),
         prop_line |-> optional(body.prop_line, as_decimal(body.prop_line)),
         over_under |-> optional(body.over_under, as_str(body.over_under)),
         result |-> defaulted(body.result, as_result(body.result), "PENDING")])

\* BetUpdate validated from a JSON body.
BetUpdate_validate(body) ==
    Validated(
        [bet_type |-> updating(body.bet_type, as_bet_type(body.bet_type)),
         bet_placed_date |->
             updating(body.bet_placed_date, as_datetime(body.bet_placed_date)),
         team |-> updating(body.team, as_str(body.team)),
         player_name |-> updating(body.player_name, as_str(body.player_name)),
         prop_type |-> updating(body.prop_type, as_prop_type(body.prop_type)),
         description |-> updating(body.description, as_str(body.description)),
         prop_line |-> updating(body.prop_line, as_decimal(body.prop_line)),
         over_under |-> updating(body.over_under, as_str(body.over_under)),
         result |-> updating(body.result, as_result(body.result))])

----------------------------------------------------------------------------
(* The routes, from the request as received to the handler *)

\* A request that fails validation: 422, no handler runs.
unprocessable(op, bet_id) ==
    /\ last' = Response(op, bet_id, 422, None, None)
    /\ UNCHANGED <<store, nextId, now, gd_args, gd_result>>

get_bet(bet_id) ==
    /\ IF bet_id \notin DOMAIN store
       THEN last' = Response("get", bet_id, 404, None, None)
       ELSE last' = Response("get", bet_id, 200, None, Some(store[bet_id]))
    /\ UNCHANGED <<store, nextId, now, gd_args, gd_result>>

\* The case folding of ILIKE, on the letters of the Latin alphabet.
UpperLetters == "ABCDEFGHIJKLMNOPQRSTUVWXYZ"

LowerLetters == "abcdefghijklmnopqrstuvwxyz"

lower_char(c) ==
    IF \E i \in 1..Len(UpperLetters) : SubSeq(UpperLetters, i, i) = c
    THEN LET i == CHOOSE i \in 1..Len(UpperLetters) : SubSeq(UpperLetters, i, i) = c
         IN  SubSeq(LowerLetters, i, i)
    ELSE c

\* SQL `text ILIKE pattern`: in the pattern % stands for any run of
\* characters and _ for any one character (the texts of the model hold no
\* backslash, the escape character).
RECURSIVE ilike(_, _)
ilike(text, pattern) ==
    IF pattern = "" THEN text = ""
    ELSE LET p == SubSeq(pattern, 1, 1)
             rest == SubSeq(pattern, 2, Len(pattern))
         IN  IF p = "%"
             THEN \/ ilike(text, rest)
                  \/ text # "" /\ ilike(SubSeq(text, 2, Len(text)), pattern)
             ELSE /\ text # ""
                  /\ p = "_" \/ lower_char(p) = lower_char(SubSeq(text, 1, 1))
                  /\ ilike(SubSeq(text, 2, Len(text)), rest)

\* get_bets, `if team: query.where(Bet.team.ilike(f"%{team}%"))`.
team_filter(bet, team) ==
    Truthy(team) => ilike(bet.team[1], "%" \o team[1] \o "%")

\* `if player_name: ...ilike(f"%{player_name}%")`; a NULL player_name
\* matches no pattern.
player_name_filter(bet, player_name) ==
    Truthy(player_name) =>
        /\ bet.player_name # None
        /\ ilike(bet.player_name[1], "%" \o player_name[1] \o "%")

\* get_bets, the WHERE clause: the filters given, all at once.  The members
\* of the enumerations are non-empty texts, hence truthy.
where(bet, q) ==
    /\ q.bet_type # None => bet.bet_type = q.bet_type
    /\ team_filter(bet, q.team)
    /\ player_name_filter(bet, q.player_name)
    /\ q.prop_type # None => bet.prop_type = q.prop_type
    /\ q.result # None => bet.result = q.result

\* Mutant: no ORDER BY, the rows come back in any order.
order_by_none(ids) ==
    {o \in [1..Cardinality(ids) -> ids] :
        \A i, j \in DOMAIN o : i # j => o[i] # o[j]}

\* The orders in which the rows of a set of ids can come back under
\* ORDER BY bet_placed_date DESC; rows of the same date in any order.
order_by_desc(ids) ==
    {o \in [1..Cardinality(ids) -> ids] :
        /\ \A i, j \in DOMAIN o : i # j => o[i] # o[j]
        /\ \A i, j \in DOMAIN o :
              i < j => store[o[i]].bet_placed_date[1] >= store[o[j]].bet_placed_date[1]}

Min(a, b) == IF a < b THEN a ELSE b

\* query.offset(skip).limit(limit)
offset_limit(rows, skip, limit) == SubSeq(rows, skip + 1, Min(skip + limit, Len(rows)))

\* get_bets: the lists of rows the query can return.
get_bets_results(q) ==
    LET ids == {id \in DOMAIN store : where(store[id], q)}
    IN  {offset_limit([i \in DOMAIN o |-> store[o[i]]], q.skip, q.limit) :
            o \in order_by_desc(ids)}

get_bets(q) ==
    /\ \E rows \in get_bets_results(q) :
          last' = Response("list", 0, 200, q, Some(rows))
    /\ UNCHANGED <<store, nextId, now, gd_args, gd_result>>

DefaultLimit == 100

MaxLimit == 1000

\* skip: int = Query(0, ge=0); limit: int = Query(100, ge=1, le=1000).
\* A parameter of the query string is a text; JNum is a text that reads as
\* an integer, JStr any other text.
as_skip(j) ==
    IF j.t = "absent" THEN Valid(0)
    ELSE IF j.t = "num" /\ j.n >= 0 THEN Valid(j.n)
    ELSE Invalid

as_limit(j) ==
    IF j.t = "absent" THEN Valid(DefaultLimit)
    ELSE IF j.t = "num" /\ j.n >= 1 /\ j.n <= MaxLimit THEN Valid(j.n)
    ELSE Invalid

\* The parameters of get_bets validated from the query string.
Query_validate(query) ==
    Validated(
        [skip |-> as_skip(query.skip),
         limit |-> as_limit(query.limit),
         bet_type |-> optional(query.bet_type, as_bet_type(query.bet_type)),
         team |-> optional(query.team, as_str(query.team)),
         player_name |-> optional(query.player_name, as_str(query.player_name)),
         prop_type |-> optional(query.prop_type, as_prop_type(query.prop_type)),
         result |-> optional(query.result, as_result(query.result))])

\* GET /bets
get_bets_query(query) ==
    /\ request' = Request("GET", 0, NoBody, query)
    /\ IF Query_validate(query).ok
       THEN get_bets(Query_validate(query).value)
       ELSE unprocessable("list", 0)

\* POST /bets
post_bets(body) ==
    /\ request' = Request("POST", 0, body, NoQuery)
    /\ IF BetCreate_validate(body).ok
       THEN create_bet(BetCreate_validate(body).value)
       ELSE unprocessable("create", 0)

\* GET /bets/{bet_id}
get_bets_id(bet_id) ==
    /\ request' = Request("GET", bet_id, NoBody, NoQuery)
    /\ get_bet(bet_id)

\* PATCH /bets/{bet_id}
patch_bets_id(bet_id, body) ==
    /\ request' = Request("PATCH", bet_id, body, NoQuery)
    /\ IF BetUpdate_validate(body).ok
       THEN update_bet(bet_id, BetUpdate_validate(body).value)
       ELSE unprocessable("patch", bet_id)

\* PUT /bets/{bet_id}
put_bets_id(bet_id, body) ==
    /\ request' = Request("PUT", bet_id, body, NoQuery)
    /\ IF BetCreate_validate(body).ok
       THEN replace_bet(bet_id, BetCreate_validate(body).value)
       ELSE unprocessable("put", bet_id)

\* DELETE /bets/{bet_id}
delete_bets_id(bet_id) ==
    /\ request' = Request("DELETE", bet_id, NoBody, NoQuery)
    /\ delete_bet(bet_id)

----------------------------------------------------------------------------
(* The service with two bets, driven by requests as received *)

MaxBetsTwo == 2     \* ids the primary-key sequence may hand out

BetIdsTwo == 1..MaxBetsTwo

PlayerPropBody ==
    Body([bet_type |-> JStr("player_prop"), bet_placed_date |-> JNum(1),
          team |-> JStr("LAL"), player_name |-> JStr("LeBron"),
          prop_type |-> JStr("points"), over_under |-> JStr("over")])

\* A body that also carries the keys id and updated_at, and an over_under
\* that is neither "over" nor "under".
SpreadBody ==
    Body([bet_type |-> JStr("spread"), bet_placed_date |-> JNum(2),
          team |-> JStr("BOS"), description |-> JStr("Custom"),
          over_under |-> JStr("sideways"), result |-> JStr("win"),
          id |-> JNum(2), updated_at |-> JNum(5)])

ValidCreateBodies == {PlayerPropBody, SpreadBody}

InvalidCreateBodies ==
    {[PlayerPropBody EXCEPT !.bet_type = JStr("parlay")],
     [PlayerPropBody EXCEPT !.prop_type = JStr("dunks")],
     [PlayerPropBody EXCEPT !.result = JStr("maybe")],
     [PlayerPropBody EXCEPT !.team = JNum(7)]}

ValidPatchBodies ==
    {NoBody,
     Body([team |-> JStr("BOS")]),
     Body([bet_type |-> JStr("spread"), bet_placed_date |-> JNum(2),
           team |-> JStr("BOS"), result |-> JStr("win"),
           id |-> JNum(2), updated_at |-> JNum(5)])}

InvalidPatchBodies ==
    {Body([bet_type |-> JStr("parlay")]),
     Body([prop_type |-> JStr("dunks")]),
     Body([result |-> JStr("maybe")]),
     Body([team |-> JNum(7)])}

ValidQueries == {NoQuery, Query([skip |-> JNum(1), limit |-> JNum(1)])}

InvalidQueries ==
    {Query([skip |-> JNum(-1)]), Query([skip |-> JStr("x")]),
     Query([limit |-> JNum(0)]), Query([limit |-> JNum(MaxLimit + 1)]),
     Query([bet_type |-> JStr("parlay")])}

Post ==
    \E body \in ValidCreateBodies \cup InvalidCreateBodies :
        /\ UNCHANGED sess
        /\ BetCreate_validate(body).ok => nextId <= MaxBetsTwo
        /\ post_bets(body)

Get == UNCHANGED sess /\ \E bet_id \in BetIdsTwo : get_bets_id(bet_id)

List ==
    /\ UNCHANGED sess
    /\ \E query \in ValidQueries \cup InvalidQueries : get_bets_query(query)

PatchBody ==
    /\ UNCHANGED sess
    /\ \E bet_id \in BetIdsTwo : \E body \in ValidPatchBodies \cup InvalidPatchBodies :
        patch_bets_id(bet_id, body)

PutBody ==
    /\ UNCHANGED sess
    /\ \E bet_id \in BetIdsTwo : \E body \in ValidCreateBodies \cup InvalidCreateBodies :
        put_bets_id(bet_id, body)

DeleteId == UNCHANGED sess /\ \E bet_id \in BetIdsTwo : delete_bets_id(bet_id)

NextTwo == Post \/ Get \/ List \/ PatchBody \/ PutBody \/ DeleteId \/ Pass

SpecTwo == Init /\ [][NextTwo]_vars

----------------------------------------------------------------------------
(* Requests in flight together: one database session per request *)

\* Every request has its own session (get_db_session).  db.get reads the
\* row into the session; the handler changes the session's copy; db.commit
\* flushes it.  Requests of other sessions can commit between the two.

\* Mutant: the flush writes the session's whole row, inserting it when missing.
flush_update_merge(bet_id, bet, row) ==
    [ok |-> TRUE, store |-> (bet_id :> row) @@ store]

\* The flush of a changed row: UPDATE bets SET <the columns whose value the
\* session changed> WHERE id = bet_id, on the row as committed by then.  When
\* no row is left the statement matches none (StaleDataError) and, where no
\* column changed, the refresh after the commit finds none: the request fails.
flush_update(bet_id, bet, row) ==
    IF bet_id \notin DOMAIN store
    THEN [ok |-> FALSE, store |-> store]
    ELSE [ok |-> TRUE,
          store |-> [store EXCEPT ![bet_id] =
                        [f \in DOMAIN row |->
                            IF row[f] # bet[f] THEN row[f] ELSE @[f]]]]

\* The end of a request in its session.
done(s, status) == [sess[s] EXCEPT !.pc = "done", !.status = status]

\* `bet = await db.get(Bet, bet_id)` and the handler up to its commit: 404
\* when there is no row, else the session holds the row read and the row
\* the handler made of it.
read(s, op, bet_id, payload, row) ==
    /\ sess[s].pc = "idle"
    /\ sess' = [sess EXCEPT ![s] =
          IF bet_id \notin DOMAIN store
          THEN [IdleSession EXCEPT !.pc = "done", !.op = op, !.id = bet_id,
                                   !.payload = payload, !.status = 404]
          ELSE [pc |-> "read", op |-> op, id |-> bet_id, payload |-> payload,
                bet |-> Some(store[bet_id]), row |-> Some(row), status |-> 0]]
    /\ UNCHANGED <<store, nextId, now, last, gd_args, gd_result, request>>

\* update_bet up to `await db.commit()`.
update_bet_read(s, bet_id, bet_update) ==
    read(s, "patch", bet_id, bet_update,
         IF bet_id \in DOMAIN store
         THEN update_bet_row(store[bet_id], bet_update) ELSE None)

\* replace_bet up to `await db.commit()`.
replace_bet_read(s, bet_id, bet_data) ==
    read(s, "put", bet_id, bet_data,
         IF bet_id \in DOMAIN store
         THEN replace_bet_row(store[bet_id], bet_data) ELSE None)

\* delete_bet up to `await db.commit()`.
delete_bet_read(s, bet_id) ==
    read(s, "delete", bet_id, None,
         IF bet_id \in DOMAIN store THEN store[bet_id] ELSE None)

\* update_bet and replace_bet from `await db.commit()`: the flush, which
\* fails on a NULL in a NOT NULL column or on a row no longer there.
update_commit(s) ==
    /\ sess[s].pc = "read"
    /\ sess[s].op \in {"patch", "put"}
    /\ LET flushed == flush_update(sess[s].id, sess[s].bet[1], sess[s].row[1])
       IN  IF NotNullOK(sess[s].row[1]) /\ flushed.ok
           THEN /\ store' = flushed.store
                /\ sess' = [sess EXCEPT ![s] = done(s, 200)]
           ELSE /\ sess' = [sess EXCEPT ![s] = done(s, 500)]
                /\ UNCHANGED store
    /\ UNCHANGED <<nextId, now, last, gd_args, gd_result, request>>

\* delete_bet from `await db.commit()`: DELETE FROM bets WHERE id = bet_id;
\* a row already gone is no error.
delete_commit(s) ==
    /\ sess[s].pc = "read"
    /\ sess[s].op = "delete"
    /\ store' = [i \in DOMAIN store \ {sess[s].id} |-> store[i]]
    /\ sess' = [sess EXCEPT ![s] = done(s, 200)]
    /\ UNCHANGED <<nextId, now, last, gd_args, gd_result, request>>

\* The bodies of the requests in flight.
ConcPatches ==
    {BetUpdate_validate(body).value :
        body \in {Body([team |-> JStr("BOS")]), Body([player_name |-> JNull]),
                  Body([result |-> JStr("win")])}}

ConcPuts == {BetCreate_validate(SpreadBody).value}

\* The bet the requests in flight address, as a POST stored it.
ConcBet ==
    [create_bet_row(BetCreate_validate(PlayerPropBody).value) EXCEPT !.id = Some(1)]

InitConc ==
    /\ now = 0
    /\ store = (1 :> ConcBet)
    /\ nextId = 2
    /\ last = NoRequest
    /\ gd_args = NoCall
    /\ gd_result = None
    /\ request = Idle
    /\ sess = [s \in Sessions |-> IdleSession]

PatchRead ==
    \E s \in Sessions : \E bet_update \in ConcPatches : update_bet_read(s, 1, bet_update)

PutRead == \E s \in Sessions : \E bet_data \in ConcPuts : replace_bet_read(s, 1, bet_data)

DeleteRead == \E s \in Sessions : delete_bet_read(s, 1)

UpdateCommit == \E s \in Sessions : update_commit(s)

DeleteCommit == \E s \in Sessions : delete_commit(s)

NextConc == PatchRead \/ PutRead \/ DeleteRead \/ UpdateCommit \/ DeleteCommit

SpecConc == InitConc /\ [][NextConc]_vars

----------------------------------------------------------------------------
(* The service listing its bets *)

MaxListBets == 3    \* ids the primary-key sequence may hand out

MoneylineBody ==
    Body([bet_type |-> JStr("moneyline"), bet_placed_date |-> JNum(2),
          team |-> JStr("LAL")])

ListBodies == {PlayerPropBody, SpreadBody, MoneylineBody}

ListQueries ==
    {NoQuery,
     Query([team |-> JStr("la")]),
     Query([team |-> JStr("_")]),
     Query([team |-> JStr("")]),
     Query([player_name |-> JStr("BRON")]),
     Query([bet_type |-> JStr("spread")]),
     Query([prop_type |-> JStr("points")]),
     Query([result |-> JStr("win")]),
     Query([team |-> JStr("la"), result |-> JStr("pending")]),
     Query([skip |-> JNum(1), limit |-> JNum(1)]),
     Query([skip |-> JNum(3)]),
     Query([limit |-> JNum(2)]),
     Query([team |-> JStr("la"), skip |-> JNum(1), limit |-> JNum(1)]),
     Query([team |-> JStr("_"), limit |-> JNum(1)])}

PostList ==
    /\ UNCHANGED sess
    /\ nextId <= MaxListBets
    /\ \E body \in ListBodies : post_bets(body)

ListQuery ==
    /\ UNCHANGED sess
    /\ \E query \in ListQueries : get_bets_query(query)

NextList == PostList \/ ListQuery

SpecList == Init /\ [][NextList]_vars

----------------------------------------------------------------------------
(* The analytics summary, get_bet_summary *)

\* The nine count queries, in the order the handler awaits them.
SummaryQueries ==
    <<"total_bets", "total_wins", "total_losses",
      "player_total", "player_wins", "player_losses",
      "team_total", "team_wins", "team_losses">>

\* Mutant: the team counts take the team_prop bets only.
summary_where_team_prop_only(query, bet) ==
    LET player == bet.bet_type = Some("PLAYER_PROP")
        team == bet.bet_type = Some("TEAM_PROP")
        win == bet.result = Some("WIN")
        loss == bet.result = Some("LOSS")
    IN  CASE query = "total_bets" -> TRUE
          [] query = "total_wins" -> win
          [] query = "total_losses" -> loss
          [] query = "player_total" -> player
          [] query = "player_wins" -> player /\ win
          [] query = "player_losses" -> player /\ loss
          [] query = "team_total" -> team
          [] query = "team_wins" -> team /\ win
          [] query = "team_losses" -> team /\ loss

\* The WHERE clause of each query.  bet_type and result are NOT NULL
\* columns, so == and != are two-valued.
summary_where(query, bet) ==
    LET player == bet.bet_type = Some("PLAYER_PROP")
        win == bet.result = Some("WIN")
        loss == bet.result = Some("LOSS")
    IN  CASE query = "total_bets" -> TRUE
          [] query = "total_wins" -> win
          [] query = "total_losses" -> loss
          [] query = "player_total" -> player
          [] query = "player_wins" -> player /\ win
          [] query = "player_losses" -> player /\ loss
          [] query = "team_total" -> ~player
          [] query = "team_wins" -> ~player /\ win
          [] query = "team_losses" -> ~player /\ loss

\* `await db.execute(select(func.count(Bet.id)).where(...))` and `.scalar()
\* or 0`: one statement, counting the rows committed when it runs.
summary_count(query) ==
    Cardinality({i \in DOMAIN store : summary_where(query, store[i])})

\* Mutant: the quotient is cut after the second decimal place.
round_2_down(n, d) == (n * 100) \div d

\* round(n / d, 2), as a whole number of hundredths: the nearest one, a tie
\* going to the even one.
round_2(n, d) ==
    LET q == (n * 100) \div d
        r == (n * 100) % d
    IN  IF 2 * r > d \/ (2 * r = d /\ q % 2 = 1) THEN q + 1 ELSE q

\* `round((wins / (wins + losses) * 100) if (wins + losses) > 0 else 0, 2)`,
\* in hundredths of a percent.
win_rate(wins, losses) ==
    IF wins + losses > 0 THEN round_2(wins * 100, wins + losses) ELSE 0

\* The dictionary returned, from the nine counts.
get_bet_summary_response(counts) ==
    [total_bets |-> counts[1],
     total_wins |-> counts[2],
     total_losses |-> counts[3],
     win_rate |-> win_rate(counts[2], counts[3]),
     player_bets |-> [total |-> counts[4], wins |-> counts[5],
                      losses |-> counts[6],
                      win_rate |-> win_rate(counts[5], counts[6])],
     team_bets |-> [total |-> counts[7], wins |-> counts[8],
                    losses |-> counts[9],
                    win_rate |-> win_rate(counts[8], counts[9])]]

\* A summary request between two of its queries.
Summarising(s) == sess[s].pc = "summary"

\* get_bet_summary, one awaited query at a time in the request's session;
\* the response follows the ninth without another await.
get_bet_summary(s) ==
    /\ LET counted == IF Summarising(s) THEN sess[s].counts ELSE << >>
           counts == Append(counted,
                            summary_count(SummaryQueries[Len(counted) + 1]))
       IN  sess' = [sess EXCEPT ![s] =
              IF Len(counts) < Len(SummaryQueries)
              THEN [pc |-> "summary", op |-> "summary", counts |-> counts,
                    status |-> 0, body |-> None]
              ELSE [pc |-> "done", op |-> "summary", counts |-> counts,
                    status |-> 200,
                    body |-> Some(get_bet_summary_response(counts))]]
    /\ UNCHANGED <<store, nextId, now, last, gd_args, gd_result, request>>

MaxSumBets == 3     \* ids the primary-key sequence may hand out

\* A bet as POST /bets validates it.
SumBet(bet_type, result) ==
    BetCreate_validate(Body([bet_type |-> JStr(bet_type),
                             bet_placed_date |-> JNum(1), team |-> JStr("LAL"),
                             result |-> JStr(result)])).value

\* The bets the summary counts.
SumBets ==
    {SumBet("player_prop", "win"), SumBet("spread", "win"),
     SumBet("team_prop", "loss"), SumBet("spread", "push")}

\* The changes made to them, as PATCH /bets/{id} validates them.
SumPatches == {BetUpdate_validate(Body([result |-> JStr("loss")])).value}

\* No summary is between two of its queries.
Quiet == \A s \in Sessions : ~Summarising(s)

PostDuring ==
    /\ UNCHANGED <<request, sess>>
    /\ nextId <= MaxSumBets
    /\ \E bet \in SumBets : create_bet(bet)

PatchDuring ==
    /\ UNCHANGED <<request, sess>>
    /\ \E bet_id \in DOMAIN store : \E bet_update \in SumPatches :
          update_bet(bet_id, bet_update)

DeleteDuring ==
    /\ UNCHANGED <<request, sess>>
    /\ \E bet_id \in DOMAIN store : delete_bet(bet_id)

Summary == get_bet_summary(1)

\* Requests one after the other: nothing commits while a summary runs.
PostSum == Quiet /\ PostDuring

PatchSum == Quiet /\ PatchDuring

DeleteSum == Quiet /\ DeleteDuring

NextSum == PostSum \/ PatchSum \/ DeleteSum \/ Summary

SpecSum == Init /\ [][NextSum]_vars

MaxSumConcBets == 1     \* ids the primary-key sequence may hand out

\* Requests in flight together: creates, patches and deletes commit between
\* the queries of a summary.
PostConc ==
    /\ UNCHANGED <<request, sess>>
    /\ nextId <= MaxSumConcBets
    /\ \E bet \in SumBets : create_bet(bet)

NextSumConc == PostConc \/ PatchDuring \/ DeleteDuring \/ Summary

SpecSumConc == Init /\ [][NextSumConc]_vars

----------------------------------------------------------------------------
(* Steps and states of the requests, as the properties name them *)

CreateStep == last'.op = "create" /\ now' = now

PutStep == last'.op = "put" /\ now' = now

PatchStep == last'.op = "patch" /\ now' = now

Succeeded(op) == last.op = op /\ last.status = 200

\* The bet the last successful create, put or patch wrote, as stored now.
LastBet == store[last.id]

----------------------------------------------------------------------------
(* Properties *)

\* C1: after any sequence of create, patch, put and delete requests every
\* stored bet has a non-empty description (neither None nor "").
C1_DescriptionNonEmpty ==
    \A id \in DOMAIN store : Truthy(store[id].description)

\* The text of an optional string, and of a prop_type in its short form.
TextOf(v) == IF v = None THEN "" ELSE v[1]

PropTextOf(p) ==
    IF p = None THEN ""
    ELSE IF p[1].enum THEN PropTypeValue[p[1].s] ELSE p[1].s

\* The ordered rule list of the description resolver.
DeriveRules(a) ==
    << [when |-> a.bet_type = Some("PLAYER_PROP") /\ TextOf(a.player_name) # ""
                    /\ PropTextOf(a.prop_type) # "",
        then |-> TextOf(a.player_name) \o "-" \o PropTextOf(a.prop_type)],
       [when |-> a.bet_type = Some("TEAM_PROP") /\ TextOf(a.team) # ""
                    /\ PropTextOf(a.prop_type) # "",
        then |-> TextOf(a.team) \o "-" \o PropTextOf(a.prop_type)],
       [when |-> a.bet_type \in {Some("SPREAD"), Some("MONEYLINE")}
                    /\ TextOf(a.team) # "",
        then |-> TextOf(a.team) \o "-" \o BetTypeValue[a.bet_type[1]]],
       [when |-> TextOf(a.player_name) # "", then |-> TextOf(a.player_name)],
       [when |-> TextOf(a.team) # "", then |-> TextOf(a.team)],
       [when |-> TRUE, then |-> "Unknown"] >>

FirstMatch(rules) ==
    rules[CHOOSE i \in 1..Len(rules) :
            rules[i].when /\ \A j \in 1..(i - 1) : ~rules[j].when].then

\* C2: generate_description returns the result of the first matching rule
\* of the ordered list of six rules, for every combination of arguments.
C2_FirstMatchingRule ==
    gd_result # None => gd_result[1] = FirstMatch(DeriveRules(gd_args))

C2_Witness ==
    /\ gd_args.bet_type = Some("TEAM_PROP")
    /\ gd_args.player_name = Some("LeBron")
    /\ gd_args.prop_type = Some(EnumProp("THREE_POINTERS"))
    /\ gd_result = Some("LAL-threes")

\* C3: generate_description is total and its result is never the empty
\* string, also when team, player_name and prop_type are all absent or empty.
C3_NeverEmpty ==
    gd_result # None => gd_result[1] # ""

C3_Witness ==
    /\ gd_args.team = Some("")
    /\ gd_args.player_name = None
    /\ gd_args.prop_type = Some(StrProp(""))
    /\ gd_result = Some("Unknown")

\* C4: a create or a put whose body gives a non-empty description stores and
\* returns exactly that description, whatever the other fields are.
C4_ExplicitDescriptionWins ==
    ((Succeeded("create") \/ Succeeded("put")) /\ Truthy(last.payload.description))
        => /\ LastBet.description = last.payload.description
           /\ last.body[1].description = last.payload.description

C4_Witness ==
    /\ Succeeded("put")
    /\ last.payload.description = Some("Custom")
    /\ last.payload.bet_type = Some("PLAYER_PROP")
    /\ last.payload.player_name = Some("LeBron")
    /\ last.payload.prop_type = Some(EnumProp("POINTS"))
    /\ LastBet.description = Some("Custom")

EffectiveField(bet_update, bet, f) ==
    IF bet_update[f].set THEN bet_update[f].v ELSE bet[f]

\* C6: a successful patch that names a description-affecting field and no
\* description sets the description to generate_description of, per field,
\* the body's value if named and else the value stored before the patch.
C6_PatchRecomputes ==
    [][(/\ PatchStep
        /\ last'.status = 200
        /\ description_fields_changed(last'.payload)
        /\ ~last'.payload.description.set)
       => store'[last'.id].description =
             Some(generate_description(
                     EffectiveField(last'.payload, store[last'.id], "bet_type"),
                     EffectiveField(last'.payload, store[last'.id], "team"),
                     EffectiveField(last'.payload, store[last'.id], "player_name"),
                     EffectiveField(last'.payload, store[last'.id], "prop_type")))]_vars

C6_Witness ==
    /\ Succeeded("patch")
    /\ update_data(last.payload) = {"player_name"}
    /\ last.payload.player_name.v = Some("LeBron")
    /\ LastBet.description = Some("LeBron-points")

\* C7: a successful patch whose body sets description stores exactly the
\* body's value, also when the body changes a description-affecting field.
C7_PatchExplicitDescription ==
    (Succeeded("patch") /\ last.payload.description.set)
        => LastBet.description = last.payload.description.v

C7_Witness ==
    /\ Succeeded("patch")
    /\ update_data(last.payload) = {"bet_type", "description"}
    /\ last.payload.bet_type.v = Some("SPREAD")
    /\ LastBet.team = Some("LAL")
    /\ LastBet.description = Some("Custom")

\* C8: a description given as "" is handled as a description not given, on
\* create, put and patch: the row written is the row the same request
\* without the description writes, and "" is not stored.
C8_EmptyDescriptionIsUnset ==
    [][/\ (CreateStep /\ last'.payload.description = Some(""))
            => /\ store'[last'.id] =
                     [create_bet_row([last'.payload EXCEPT !.description = None])
                        EXCEPT !.id = Some(last'.id)]
               /\ store'[last'.id].description # Some("")
       /\ (PutStep /\ last'.status = 200 /\ last'.payload.description = Some(""))
            => /\ store'[last'.id] =
                     replace_bet_row(store[last'.id],
                                     [last'.payload EXCEPT !.description = None])
               /\ store'[last'.id].description # Some("")
       /\ (PatchStep /\ last'.status = 200
             /\ last'.payload.description = [set |-> TRUE, v |-> Some("")])
            => /\ store'[last'.id] =
                     update_bet_row(store[last'.id],
                                    [last'.payload EXCEPT !.description = Unset])
               /\ store'[last'.id].description # Some("")]_vars

\* C9 as stated: a successful patch whose body names none of bet_type, team,
\* player_name, prop_type leaves the description as it was.
C9_AsStated ==
    [][(PatchStep /\ last'.status = 200
          /\ ~description_fields_changed(last'.payload))
       => store'[last'.id].description = store[last'.id].description]_vars

\* C9, amended: a successful patch whose body names none of bet_type, team,
\* player_name, prop_type and does not name description either leaves the
\* description as it was.
C9_PatchKeepsDescription ==
    [][(PatchStep /\ last'.status = 200
          /\ ~description_fields_changed(last'.payload)
          /\ ~last'.payload.description.set)
       => store'[last'.id].description = store[last'.id].description]_vars

C9_Witness ==
    /\ Succeeded("patch")
    /\ update_data(last.payload) = {"result"}
    /\ LastBet.result = Some("WIN")
    /\ LastBet.bet_type = Some("PLAYER_PROP")
    /\ LastBet.player_name = Some("LeBron")
    /\ LastBet.description = Some("Custom")

\* C10: a put whose body has no description stores the description that
\* generate_description gives for the body's own bet_type, team,
\* player_name and prop_type; the replaced row has no part in it.
C10_PutDerivesFromBody ==
    (Succeeded("put") /\ last.payload.description = None)
        => LastBet.description =
              Some(generate_description(last.payload.bet_type, last.payload.team,
                                        last.payload.player_name,
                                        last.payload.prop_type))

C10_Witness ==
    /\ Succeeded("put")
    /\ last.payload.description = None
    /\ last.payload.player_name = None
    /\ last.payload.bet_type = Some("PLAYER_PROP")
    /\ LastBet.description = Some("LAL")

----------------------------------------------------------------------------
(* Properties of the requests as received *)

\* A step that handles a request with the given method.
RequestStep(method) == now' = now /\ request'.method = method

\* The keys a body carries.
Named(body) == {k \in BodyKeys : body[k].t # "absent"}

\* The fields of a bet a client can set.
ClientFields ==
    {"bet_type", "bet_placed_date", "team", "player_name", "prop_type",
     "description", "prop_line", "over_under", "result"}

\* C11: a successful patch leaves every client-settable field its body does
\* not carry as it was (description excepted when the body carries a
\* description-affecting field, updated_at excepted), and leaves every
\* other bet of the store, and the set of stored bets, as they were.
C11_PatchChangesNamedFieldsOnly ==
    [][(RequestStep("PATCH") /\ last'.status = 200)
       => /\ \A f \in ClientFields \ Named(request'.body) :
                \/ /\ f = "description"
                   /\ Named(request'.body) \cap description_affecting_fields # {}
                \/ store'[request'.id][f] = store[request'.id][f]
          /\ DOMAIN store' = DOMAIN store
          /\ \A j \in DOMAIN store \ {request'.id} : store'[j] = store[j]]_vars

C11_Witness ==
    /\ request.method = "PATCH"
    /\ last.status = 200
    /\ Named(request.body) = {"team"}
    /\ DOMAIN store = {1, 2}
    /\ store[request.id].team = Some("BOS")
    /\ store[request.id].player_name = Some("LeBron")
    /\ store[request.id].result = Some("PENDING")

\* C12: every successful patch and put sets updated_at to the clock at that
\* request, whatever the body carries (nothing, values that change nothing,
\* a key updated_at); a bet just created has no updated_at.
C12_UpdatedAtIsRequestTime ==
    [][/\ ((RequestStep("PATCH") \/ RequestStep("PUT")) /\ last'.status = 200)
            => store'[request'.id].updated_at = Some(now)
       /\ (RequestStep("POST") /\ last'.status = 200)
            => store'[last'.id].updated_at = None]_vars

C12_Witness ==
    /\ request.method = "PATCH"
    /\ last.status = 200
    /\ request.body = NoBody
    /\ now = 1
    /\ store[request.id].updated_at = Some(1)

\* C13: no two stored bets have the same id, and no step changes the id of
\* a bet that stays in the store (a patch or put whose body carries a key
\* id included).
C13_IdsUniqueAndFixed ==
    /\ [](\A i, j \in DOMAIN store : i # j => store[i].id # store[j].id)
    /\ [][\A i \in DOMAIN store \cap DOMAIN store' :
             store'[i].id = store[i].id]_vars

C13_Witness ==
    /\ request.method = "PUT"
    /\ last.status = 200
    /\ request.id = 1
    /\ request.body.id = JNum(2)
    /\ DOMAIN store = {1, 2}
    /\ store[1].id = Some(1)
    /\ store[2].id = Some(2)

\* The values of an enumeration.
EnumValues(values) == {values[m] : m \in DOMAIN values}

\* A text outside an enumeration.
OutsideEnumeration(j, values) == j.t = "str" /\ j.s \notin EnumValues(values)

\* The keys whose values are texts, in a body and in a query.
TextKeys ==
    {"bet_type", "team", "player_name", "prop_type", "description",
     "over_under", "result"}

\* A request that fails validation: an enumeration field outside its
\* enumeration, a wrongly typed field, skip below 0 or not a number, limit
\* below 1, above 1000 or not a number.
FailsValidation(req) ==
    \/ \E part \in {req.body, req.query} :
          \/ OutsideEnumeration(part.bet_type, BetTypeValue)
          \/ OutsideEnumeration(part.prop_type, PropTypeValue)
          \/ OutsideEnumeration(part.result, BetResultValue)
    \/ \E k \in TextKeys : req.body[k].t = "num"
    \/ req.body.bet_placed_date.t = "str"
    \/ req.query.skip.t = "str"
    \/ req.query.skip.t = "num" /\ req.query.skip.n < 0
    \/ req.query.limit.t = "str"
    \/ req.query.limit.t = "num" /\ (req.query.limit.n < 1 \/ req.query.limit.n > 1000)

\* A step that handles a get, patch, put or delete of an id not in the store.
AddressesMissing ==
    /\ now' = now
    /\ request'.method \in {"GET", "PATCH", "PUT", "DELETE"}
    /\ request'.id \in BetIdsTwo
    /\ request'.id \notin DOMAIN store

\* C14 as stated: a get, patch, put or delete of an id not in the store
\* reports 404 and leaves the store as it was.
C14_AsStated ==
    [][AddressesMissing => last'.status = 404 /\ store' = store]_vars

\* C14, amended: a get, patch, put or delete that passes validation and
\* addresses an id not in the store reports 404; with or without passing
\* validation it leaves the store as it was.
C14_NotFoundNoSideEffect ==
    [][AddressesMissing
       => /\ ~FailsValidation(request') => last'.status = 404
          /\ store' = store]_vars

C14_Witness ==
    /\ request.method = "PATCH"
    /\ request.id = 2
    /\ request.body = Body([team |-> JStr("BOS")])
    /\ last.status = 404
    /\ DOMAIN store = {1}
    /\ store[1].team = Some("LAL")
    /\ store[1].updated_at = None

\* A session that has ended the given request with the given status.
Ended(s, ops, status) ==
    sess[s].pc = "done" /\ sess[s].op \in ops /\ sess[s].status = status

\* A step in which the patch or put of session s commits.
UpdateCommitStep(s) ==
    /\ sess[s].pc = "read"
    /\ sess[s].op \in {"patch", "put"}
    /\ sess'[s].pc = "done"

\* C15: a bet whose delete has completed is not in the store again; a patch
\* or put that read the bet before the delete and commits after it fails
\* (500) and writes nothing.
C15_DeletedStaysDeleted ==
    /\ [](\A s \in Sessions :
             Ended(s, {"delete"}, 200) => sess[s].id \notin DOMAIN store)
    /\ [][\A s \in Sessions :
             (UpdateCommitStep(s) /\ sess[s].id \notin DOMAIN store)
                => sess'[s].status = 500 /\ store' = store]_vars

C15_Witness ==
    \E s, t \in Sessions :
        /\ Ended(s, {"delete"}, 200)
        /\ Ended(t, {"patch"}, 500)
        /\ sess[t].bet = Some(ConcBet)
        /\ store = << >>

\* The row two patches leave when the second begins after the first has ended.
OneAfterTheOther(first, second) ==
    update_bet_row(update_bet_row(ConcBet, first), second)

\* C16: when two patches of the same bet are in flight together and both
\* succeed, the stored row is the row the two patches leave when applied one
\* after the other in one of the two orders, and its description is
\* generate_description of its stored bet_type, team, player_name, prop_type.
C16_ConcurrentPatchesSerialize ==
    \A s, t \in Sessions :
        (/\ s # t
         /\ Ended(s, {"patch"}, 200)
         /\ Ended(t, {"patch"}, 200)
         /\ \A u \in Sessions \ {s, t} : sess[u].pc = "idle")
        => /\ store[1] \in {OneAfterTheOther(sess[s].payload, sess[t].payload),
                            OneAfterTheOther(sess[t].payload, sess[s].payload)}
           /\ store[1].description =
                 Some(generate_description(store[1].bet_type, store[1].team,
                                           store[1].player_name, store[1].prop_type))

\* A text in lower case.
RECURSIVE lower(_)
lower(text) ==
    IF text = "" THEN ""
    ELSE lower_char(SubSeq(text, 1, 1)) \o lower(SubSeq(text, 2, Len(text)))

\* The text holds the part, letters compared without their case.
Contains(text, part) ==
    \E i \in 1..(Len(text) - Len(part) + 1) :
        lower(SubSeq(text, i, i + Len(part) - 1)) = lower(part)

Supplied(j) == j.t # "absent"

\* A bet satisfies every filter the query supplies.
SatisfiesFilters(bet, query) ==
    /\ Supplied(query.bet_type) => BetTypeValue[bet.bet_type[1]] = query.bet_type.s
    /\ Supplied(query.team) => Contains(bet.team[1], query.team.s)
    /\ Supplied(query.player_name) =>
          bet.player_name # None /\ Contains(bet.player_name[1], query.player_name.s)
    /\ Supplied(query.prop_type) =>
          bet.prop_type # None /\ PropTextOf(bet.prop_type) = query.prop_type.s
    /\ Supplied(query.result) => BetResultValue[bet.result[1]] = query.result.s

\* The last request was a GET /bets that returned a list.
Listed == request.method = "GET" /\ request.id = 0 /\ last.status = 200

Range(seq) == {seq[i] : i \in DOMAIN seq}

\* C17: a GET /bets without skip and limit returns exactly the stored bets
\* that satisfy every supplied filter, each once.
C17_ListFilters ==
    (Listed /\ ~Supplied(request.query.skip) /\ ~Supplied(request.query.limit))
        => /\ Range(last.body[1]) =
                 {store[id] : id \in {i \in DOMAIN store :
                                         SatisfiesFilters(store[i], request.query)}}
           /\ Len(last.body[1]) = Cardinality(Range(last.body[1]))

SkipOf(query) == IF Supplied(query.skip) THEN query.skip.n ELSE 0

LimitOf(query) == IF Supplied(query.limit) THEN query.limit.n ELSE 100

\* The stored bets that satisfy the query's filters, in the descending
\* orders of bet_placed_date.
FilteredOrdered(query) ==
    LET ids == {i \in DOMAIN store : SatisfiesFilters(store[i], query)}
    IN  {[k \in DOMAIN o |-> store[o[k]]] :
            o \in {o \in [1..Cardinality(ids) -> ids] :
                     /\ \A i, j \in DOMAIN o : i # j => o[i] # o[j]
                     /\ \A i, j \in DOMAIN o :
                           i < j => store[o[i]].bet_placed_date[1]
                                       >= store[o[j]].bet_placed_date[1]}}

\* C19: a GET /bets with skip s and limit l returns the elements at the
\* positions s to s+l-1 of the filtered, ordered sequence: at most l bets,
\* none when s is at least the number of matching bets.
C19_PaginationAfterFilter ==
    (Listed /\ (Supplied(request.query.skip) \/ Supplied(request.query.limit))) =>
        /\ \E full \in FilteredOrdered(request.query) :
              last.body[1] =
                 SubSeq(full, SkipOf(request.query) + 1,
                        Min(SkipOf(request.query) + LimitOf(request.query), Len(full)))
        /\ Len(last.body[1]) <= LimitOf(request.query)

\* C20: a request that fails validation is answered 422 and reaches neither
\* the store nor the primary-key sequence: the stored bets and all their
\* fields are as they were.
C20_InvalidRequestRejected ==
    [][(now' = now /\ FailsValidation(request'))
       => /\ last'.status = 422
          /\ store' = store
          /\ nextId' = nextId]_vars

C20_Witness ==
    /\ request.method = "GET"
    /\ request.query.limit = JNum(1001)
    /\ last.status = 422
    /\ DOMAIN store = {1, 2}

----------------------------------------------------------------------------
(* Properties of the description's fallbacks *)

\* A direct call of generate_description has returned.
Derived == gd_result # None

\* C24 as stated: for a team_prop without prop_type and with a team,
\* generate_description returns the team alone, whatever player_name is.
C24_AsStated ==
    (/\ Derived
     /\ gd_args.bet_type = Some("TEAM_PROP")
     /\ PropTextOf(gd_args.prop_type) = ""
     /\ TextOf(gd_args.team) # "")
        => gd_result = gd_args.team

\* C24, amended: for a team_prop without prop_type, with a team and without
\* player_name, generate_description returns the team alone; with a
\* player_name it returns the player_name.
C24_TeamPropWithoutPropType ==
    (/\ Derived
     /\ gd_args.bet_type = Some("TEAM_PROP")
     /\ PropTextOf(gd_args.prop_type) = ""
     /\ TextOf(gd_args.team) # "")
        => gd_result = IF TextOf(gd_args.player_name) = ""
                       THEN gd_args.team ELSE gd_args.player_name

C24_Witness ==
    /\ gd_args.bet_type = Some("TEAM_PROP")
    /\ gd_args.prop_type = None
    /\ gd_args.team = Some("LAL")
    /\ gd_args.player_name = Some("")
    /\ gd_result = Some("LAL")

\* C25: for a player_prop with a player_name and without prop_type (absent
\* or empty), generate_description returns the player_name alone, whatever
\* team is; for a player_prop without player_name and with a team it
\* returns the team, whatever prop_type is.
C25_PlayerPropFallbacks ==
    (Derived /\ gd_args.bet_type = Some("PLAYER_PROP"))
        => /\ (TextOf(gd_args.player_name) # "" /\ PropTextOf(gd_args.prop_type) = "")
                => gd_result = gd_args.player_name
           /\ (TextOf(gd_args.player_name) = "" /\ TextOf(gd_args.team) # "")
                => gd_result = gd_args.team

C25_Witness ==
    /\ gd_args.bet_type = Some("PLAYER_PROP")
    /\ gd_args.player_name = Some("LeBron")
    /\ gd_args.prop_type = Some(StrProp(""))
    /\ gd_args.team = Some("LAL")
    /\ gd_result = Some("LeBron")

----------------------------------------------------------------------------
(* Properties of the bets as created, patched and replaced *)

C23_OverUnderDomain ==
    \A id \in DOMAIN store :
        store[id].over_under \in {None, Some("over"), Some("under")}

\* The value a field of a bet takes from a JSON value of a body; for a key
\* the body leaves out (or gives as null), the default of BetCreate.
ValueFrom(f, j) ==
    IF j.t \in {"absent", "null"}
    THEN IF f = "result" THEN Some("PENDING") ELSE None
    ELSE IF f = "bet_type" THEN Some(CHOOSE m \in BetType : BetTypeValue[m] = j.s)
    ELSE IF f = "result" THEN Some(CHOOSE m \in BetResult : BetResultValue[m] = j.s)
    ELSE IF f = "prop_type"
         THEN Some(EnumProp(CHOOSE m \in PropType : PropTypeValue[m] = j.s))
    ELSE IF f = "bet_placed_date" THEN Some(j.n)
    ELSE IF f = "prop_line" THEN Some(NumText(j.n))
    ELSE Some(j.s)

\* C26: after a successful put every client-settable field of the bet has
\* the value of the body, or the default of a create where the body leaves
\* the key out (the description is the body's, or generated from the body's
\* own fields where the body has none); id and created_at are as before.
C26_PutReplacesEntirely ==
    [][(RequestStep("PUT") /\ last'.status = 200)
       => /\ \A f \in ClientFields \ {"description"} :
                store'[request'.id][f] = ValueFrom(f, request'.body[f])
          /\ store'[request'.id].description =
                IF request'.body.description.s # ""
                THEN Some(request'.body.description.s)
                ELSE Some(generate_description(
                             ValueFrom("bet_type", request'.body.bet_type),
                             ValueFrom("team", request'.body.team),
                             ValueFrom("player_name", request'.body.player_name),
                             ValueFrom("prop_type", request'.body.prop_type)))
          /\ store'[request'.id].id = store[request'.id].id
          /\ store'[request'.id].created_at = store[request'.id].created_at]_vars

C26_Witness ==
    /\ request.method = "PUT"
    /\ last.status = 200
    /\ request.body = SpreadBody
    /\ now = 1
    /\ store[request.id].created_at = Some(0)
    /\ store[request.id].updated_at = Some(1)
    /\ store[request.id].player_name = None
    /\ store[request.id].prop_type = None
    /\ store[request.id].result = Some("WIN")

\* The fields a patch body gives as null, and those it gives a value.
NullFields(bet_update) ==
    {f \in update_data(bet_update) : bet_update[f].v = None}

ValueFields(bet_update) == update_data(bet_update) \ NullFields(bet_update)

\* C27: a successful patch leaves every field its body gives as null as it
\* was, and a null does not count as a change of a description-affecting
\* field: with no description-affecting field given a value and no
\* description given, the description is as it was.
C27_NullLeavesFieldUnchanged ==
    [][(PatchStep /\ last'.status = 200)
       => /\ \A f \in NullFields(last'.payload) :
                store'[last'.id][f] = store[last'.id][f]
          /\ (/\ ValueFields(last'.payload) \cap description_affecting_fields = {}
              /\ "description" \notin ValueFields(last'.payload))
                => store'[last'.id].description = store[last'.id].description]_vars

\* The description is the one generate_description gives for the row.
DescriptionDerived(bet) ==
    bet.description =
        Some(generate_description(bet.bet_type, bet.team, bet.player_name,
                                  bet.prop_type))

\* C28: a bet created without a description has the generated description,
\* and a successful patch or put that supplies no description leaves a bet
\* that had the generated description with the generated description of
\* its new bet_type, team, player_name and prop_type.
C28_DerivedStaysDerived ==
    [][/\ (CreateStep /\ ~Truthy(last'.payload.description))
            => DescriptionDerived(store'[last'.id])
       /\ (/\ PatchStep
           /\ last'.status = 200
           /\ ~Truthy(last'.payload.description.v)
           /\ DescriptionDerived(store[last'.id]))
            => DescriptionDerived(store'[last'.id])
       /\ (/\ PutStep
           /\ last'.status = 200
           /\ ~Truthy(last'.payload.description)
           /\ DescriptionDerived(store[last'.id]))
            => DescriptionDerived(store'[last'.id])]_vars

\* The summary of session 1 has just been answered.
SummaryEnds == Summarising(1) /\ sess'[1].pc = "done"

Summarised == sess[1].pc = "done" /\ sess[1].op = "summary"

\* The three groups of the summary and the part of the response of each.
SummaryGroups == {"all", "player_bets", "team_bets"}

GroupOf(g) ==
    {i \in DOMAIN store :
        \/ g = "all"
        \/ g = "player_bets" /\ store[i].bet_type = Some("PLAYER_PROP")
        \/ g = "team_bets" /\ store[i].bet_type # Some("PLAYER_PROP")}

ResultIn(g, r) == Cardinality({i \in GroupOf(g) : store[i].result = Some(r)})

PartOf(body, g) ==
    IF g = "all"
    THEN [total |-> body.total_bets, wins |-> body.total_wins,
          losses |-> body.total_losses, win_rate |-> body.win_rate]
    ELSE body[g]

\* rate, in hundredths of a percent, is wins / (wins + losses) * 100 to the
\* nearest hundredth, 0 without wins and losses.
IsWinRate(rate, wins, losses) ==
    /\ rate \in 0..10000
    /\ IF wins + losses = 0
       THEN rate = 0
       ELSE LET off == rate * (wins + losses) - wins * 10000
            IN  2 * off <= wins + losses /\ -2 * off <= wins + losses

\* C21: with requests handled one after the other, each win_rate of a
\* summary (overall, player_bets, team_bets) is wins / (wins + losses) * 100
\* rounded to 2 decimal places over the stored bets of that group, counting
\* as wins the bets with result win and as losses those with result loss
\* only, is 0 when there are neither, and lies between 0 and 100.
C21_WinRate ==
    [][SummaryEnds
       => \A g \in SummaryGroups :
             IsWinRate(PartOf(sess'[1].body[1], g).win_rate,
                       ResultIn(g, "WIN"), ResultIn(g, "LOSS"))]_vars

\* A summary with two wins and a loss overall (66.67), a win and a loss
\* among the team bets (50.00) and a lone win among the player bets.
C21_Witness ==
    /\ Summarised
    /\ sess[1].body[1].win_rate = 6667
    /\ sess[1].body[1].team_bets.win_rate = 5000
    /\ sess[1].body[1].player_bets.win_rate = 10000

\* C22: with requests handled one after the other, player_bets counts the
\* stored bets with bet_type player_prop and team_bets all other stored
\* bets, the overall counts are those of all stored bets, and total, wins
\* and losses are each the sum of the two groups'.
C22_CountsPartition ==
    [][SummaryEnds
       => LET body == sess'[1].body[1]
          IN  /\ \A g \in SummaryGroups :
                    /\ PartOf(body, g).total = Cardinality(GroupOf(g))
                    /\ PartOf(body, g).wins = ResultIn(g, "WIN")
                    /\ PartOf(body, g).losses = ResultIn(g, "LOSS")
              /\ body.total_bets = body.player_bets.total + body.team_bets.total
              /\ body.total_wins = body.player_bets.wins + body.team_bets.wins
              /\ body.total_losses = body.player_bets.losses + body.team_bets.losses]_vars

\* A summary of a player bet and two team bets, one of them a won spread.
C22_Witness ==
    /\ Summarised
    /\ sess[1].body[1].player_bets.total = 1
    /\ sess[1].body[1].team_bets.total = 2
    /\ sess[1].body[1].team_bets.wins = 1
    /\ \E i \in DOMAIN store :
          store[i].bet_type = Some("SPREAD") /\ store[i].result = Some("WIN")

\* C29: every summary response, whatever commits between its queries, has
\* total_wins + total_losses <= total_bets and
\* total_bets = player_bets.total + team_bets.total.
C29_SummaryIsSnapshot ==
    Summarised
    => LET body == sess[1].body[1]
       IN  /\ body.total_wins + body.total_losses <= body.total_bets
           /\ body.total_bets = body.player_bets.total + body.team_bets.total

====
